---- MODULE Spec2Model ----
(***************************************************************************)
(* The consensus core of the federated mint (FediMintConsensus in          *)
(* minimint/src/consensus.rs): request admission, the pool of outstanding  *)
(* consensus items, the application of a delivered epoch and the           *)
(* aggregation of partial blind signatures.                                *)
(*                                                                         *)
(* Every variable is a function over the replicas under observation: the   *)
(* honest peers whose FediMintConsensus value is modelled.  Spec and       *)
(* SpecWide observe one replica, SpecPair two replicas that are handed the *)
(* same epochs, SpecLive one replica whose proposals the BFT layer         *)
(* eventually delivers.                                                    *)
(***************************************************************************)
EXTENDS Integers, Sequences, FiniteSets, TLC

(***************************************************************************)
(* Federation configuration (cfg: ServerConfig).                           *)
(***************************************************************************)
NumPeers == 4

MaxFaulty == 1

Peers == 0 .. (NumPeers - 1)

\* Peers whose contributions are arbitrary: besides its own share, such a peer
\* may contribute the share of peer 0 under its own name.
Byzantine == {NumPeers - 1}

\* Peers that contribute client requests to an epoch: peer 0, to which clients
\* submit their requests, and a Byzantine peer, which proposes whatever it
\* likes.  (The loop hands the contributor of a client request to the log only.)
Proposers == {0} \cup Byzantine

(***************************************************************************)
(* Bounds of the exploration.                                              *)
(***************************************************************************)
\* Spec: the number of epochs delivered in one run, and of consensus items
\* carried by one batch.
MaxEpoch == 2

MaxBatch == 1

\* SpecWide: the same bounds for the runs that need several items in a batch.
WideEpoch == 3

WideBatch == 2

\* SpecPair: the number of epochs delivered to two replicas (of WideBatch items).
PairEpoch == 2

\* SpecLive: the number of epochs after which clients submit nothing more and
\* only the replica's own proposals are delivered.
LiveEpoch == 3

(***************************************************************************)
(* Values.                                                                 *)
(***************************************************************************)
\* Blind token payloads of issuance requests.
BlindTokens == {"bt1"}

\* RequestId: the digest of an issuance request's blind tokens.
id(blind_tokens) == IF blind_tokens = "bt1" THEN 1 ELSE 0

RequestIds == {id(bt) : bt \in BlindTokens}

\* A coin: its spend key and whether the mint's signature on it is genuine.
GoodCoin == [spend_key |-> "k1", mint_sig |-> TRUE]

spend_key(coin) == coin.spend_key

\* ClientRequest: PegIn, Reissuance and PegOut.  The sig of a reissuance is the
\* set of spend keys whose owners signed the request's digest.
PegIn(blind_tokens) == [type |-> "PegIn", blind_tokens |-> blind_tokens]

Reissuance(coins, blind_tokens, sig) ==
    [type |-> "Reissuance", coins |-> coins, blind_tokens |-> blind_tokens, sig |-> sig]

PegOut == [type |-> "PegOut"]

ClientRequests ==
    { PegIn("bt1"),
      Reissuance({GoodCoin}, "bt1", {"k1"}),
      Reissuance({GoodCoin}, "bt1", {}),
      PegOut }

\* PartialSigResponse: the request id and the peer whose key share signed it.
PartialSigResponse(rid, signer) == [id |-> rid, signer |-> signer]

PartialSigResponses == {PartialSigResponse(rid, s) : rid \in RequestIds, s \in Peers}

\* SigResponse: the combined signature for a request id.
SigResponse(rid) == [id |-> rid]

\* ConsensusItem
ClientRequestItem(cr) == [kind |-> "ClientRequest", cr |-> cr]

PartiallySignedRequest(psig) == [kind |-> "PartiallySignedRequest", psig |-> psig]

ConsensusItems ==
    {ClientRequestItem(cr) : cr \in ClientRequests}
        \cup {PartiallySignedRequest(ps) : ps \in PartialSigResponses}

(***************************************************************************)
(* Collaborators of the core: the multi-signature check and the mint.      *)
(***************************************************************************)
\* musig::verify(digest, sig, pub_keys): the signers are exactly the key set.
verify(reissuance_req, pub_keys) == reissuance_req.sig = pub_keys

\* Mint::validate(coins), on a mint that has recorded the coins in spent.
validate(spent, coins) == \A c \in coins : c.mint_sig /\ c \notin spent

\* Mint::sign(issuance_req) of the peer identity.
sign(identity, blind_tokens) == PartialSigResponse(id(blind_tokens), identity)

\* Mint::reissue(coins, blind_tokens): None is <<>>, Some(sr) is <<sr>>; the
\* coins of an accepted reissuance are recorded as spent.
reissue(identity, spent, coins, blind_tokens) ==
    IF validate(spent, coins)
    THEN [sr |-> <<sign(identity, blind_tokens)>>, spent |-> spent \cup coins]
    ELSE [sr |-> <<>>, spent |-> spent]

\* The peers of a share list whose share verifies under their own key share.
ValidSigners(psigs) ==
    {psigs[i][1] : i \in {j \in DOMAIN psigs : psigs[j][2].signer = psigs[j][1]}}

\* Mint::combine(partial_sigs): Ok(sig) is <<sig>>, Err is <<>>.  The scheme is
\* t-of-N with t = N - f valid shares of distinct peers.
combine(psigs) ==
    IF Cardinality(ValidSigners(psigs)) >= NumPeers - MaxFaulty
    THEN <<SigResponse(psigs[1][2].id)>>
    ELSE <<>>

(***************************************************************************)
(* State.                                                                  *)
(***************************************************************************)
VARIABLES
    outstanding_consensus_items,  \* replica -> set of ConsensusItem
    partial_blind_signatures,     \* replica -> (RequestId -> list of (peer, share))
    mint,                         \* replica -> coins its mint has recorded as spent
    panicked,                     \* replica -> whether a call on it has panicked
    ret,                          \* the last call: its operation, arguments and results
    emitted,                      \* replica -> (RequestId -> SigResponses returned so far)
    epoch                         \* number of batches delivered so far

vars == <<outstanding_consensus_items, partial_blind_signatures, mint, panicked, ret,
          emitted, epoch>>

Replicas == DOMAIN outstanding_consensus_items

\* HashMap helpers
Insert(map, k, v) == [x \in (DOMAIN map) \cup {k} |-> IF x = k THEN v ELSE map[x]]

Remove(map, k) == [x \in (DOMAIN map) \ {k} |-> map[x]]

EmptyMap == [x \in {} |-> <<>>]

\* The contents of one FediMintConsensus value while a call runs on it; out is
\* the result accumulated so far.
Core(p) ==
    [ identity |-> p,
      outstanding_consensus_items |-> outstanding_consensus_items[p],
      partial_blind_signatures |-> partial_blind_signatures[p],
      spent |-> mint[p],
      panicked |-> panicked[p],
      out |-> <<>> ]

tbs_threshold == NumPeers - MaxFaulty - 1

(***************************************************************************)
(* Share aggregation.                                                      *)
(***************************************************************************)
\* add_sig_share with a share that is not the contributing peer's own left out.
add_sig_share_drop_faulty(st, peer, partial_sig) ==
    LET req_id == partial_sig.id
        entry == IF req_id \in DOMAIN st.partial_blind_signatures
                 THEN st.partial_blind_signatures[req_id]
                 ELSE <<>>
    IN  IF (\E i \in DOMAIN entry : entry[i][1] = peer) \/ partial_sig.signer # peer
        THEN entry
        ELSE Append(entry, <<peer, partial_sig>>)

\* add_sig_share with a later share of a peer put in the place of its earlier one.
add_sig_share_replace(st, peer, partial_sig) ==
    LET req_id == partial_sig.id
        entry == IF req_id \in DOMAIN st.partial_blind_signatures
                 THEN st.partial_blind_signatures[req_id]
                 ELSE <<>>
    IN  IF \E i \in DOMAIN entry : entry[i][1] = peer
        THEN [i \in DOMAIN entry |->
                 IF entry[i][1] = peer THEN <<peer, partial_sig>> ELSE entry[i]]
        ELSE Append(entry, <<peer, partial_sig>>)

\* req_psigs once the delivered share has been added to it, unless the peer
\* already has one there.
add_sig_share(st, peer, partial_sig) ==
    LET req_id == partial_sig.id
        entry == IF req_id \in DOMAIN st.partial_blind_signatures
                 THEN st.partial_blind_signatures[req_id]
                 ELSE <<>>
    IN  IF \E i \in DOMAIN entry : entry[i][1] = peer
        THEN entry
        ELSE Append(entry, <<peer, partial_sig>>)

\* process_partial_signature with the delivered share put into the pool.
process_partial_signature_repool(st, peer, partial_sig) ==
    LET req_id == partial_sig.id
        req_psigs == add_sig_share(st, peer, partial_sig)
        bsig == IF Len(req_psigs) > tbs_threshold THEN combine(req_psigs) ELSE <<>>
        pooled == [st EXCEPT !.outstanding_consensus_items =
                                 @ \cup {PartiallySignedRequest(partial_sig)}]
    IN  IF bsig # <<>>
        THEN [pooled EXCEPT !.partial_blind_signatures = Remove(@, req_id),
                            !.out = Append(@, bsig[1])]
        ELSE [pooled EXCEPT !.partial_blind_signatures = Insert(@, req_id, req_psigs)]

\* process_partial_signature with the entry removed whenever the combination
\* was attempted, whatever its result.
process_partial_signature_drop_on_error(st, peer, partial_sig) ==
    LET req_id == partial_sig.id
        req_psigs == add_sig_share(st, peer, partial_sig)
        bsig == IF Len(req_psigs) > tbs_threshold THEN combine(req_psigs) ELSE <<>>
    IN  IF Len(req_psigs) > tbs_threshold
        THEN [st EXCEPT !.partial_blind_signatures = Remove(@, req_id),
                        !.out = @ \o bsig]
        ELSE [st EXCEPT !.partial_blind_signatures = Insert(@, req_id, req_psigs)]

process_partial_signature(st, peer, partial_sig) ==
    LET req_id == partial_sig.id
        req_psigs == add_sig_share(st, peer, partial_sig)
        bsig == IF Len(req_psigs) > tbs_threshold THEN combine(req_psigs) ELSE <<>>
    IN  IF bsig # <<>>
        THEN [st EXCEPT !.partial_blind_signatures = Remove(@, req_id),
                        !.out = Append(@, bsig[1])]
        ELSE [st EXCEPT !.partial_blind_signatures = Insert(@, req_id, req_psigs)]

(***************************************************************************)
(* Application of delivered client requests.                               *)
(***************************************************************************)
\* push_local_share with the share put into the pool only.
push_local_share_pool_only(st, signed_req) ==
    [st EXCEPT !.outstanding_consensus_items = @ \cup {PartiallySignedRequest(signed_req)}]

\* The tail shared by process_peg_in_request and process_reissuance_request:
\* the local share goes into the pool and into the share list of its request.
push_local_share(st, signed_req) ==
    LET req_id == signed_req.id
        entry == IF req_id \in DOMAIN st.partial_blind_signatures
                 THEN st.partial_blind_signatures[req_id]
                 ELSE <<>>
    IN  [st EXCEPT !.outstanding_consensus_items = @ \cup {PartiallySignedRequest(signed_req)},
                   !.partial_blind_signatures =
                       Insert(@, req_id, Append(entry, <<st.identity, signed_req>>))]

process_peg_in_request(st, peg_in) ==
    push_local_share(st, sign(st.identity, peg_in.blind_tokens))

\* process_reissuance_request that signs the blind tokens although the mint
\* rejected the coins.
process_reissuance_request_sign_rejected(st, peer, reissuance) ==
    LET r == reissue(st.identity, st.spent, reissuance.coins, reissuance.blind_tokens)
    IN  push_local_share([st EXCEPT !.spent = r.spent],
                         sign(st.identity, reissuance.blind_tokens))

process_reissuance_request(st, peer, reissuance) ==
    LET r == reissue(st.identity, st.spent, reissuance.coins, reissuance.blind_tokens)
    IN  IF r.sr = <<>>
        THEN st
        ELSE push_local_share([st EXCEPT !.spent = r.spent], r.sr[1])

\* unimplemented!() on a PegOut: the call panics.
process_client_request(st, peer, cr) ==
    CASE cr.type = "PegIn" -> process_peg_in_request(st, cr)
      [] cr.type = "Reissuance" -> process_reissuance_request(st, peer, cr)
      [] cr.type = "PegOut" -> [st EXCEPT !.panicked = TRUE]

\* process_consensus_item with the pool drained of every item of the delivered
\* item's kind instead of the item alone.
process_consensus_item_drain(st, peer, ci) ==
    LET removed == [st EXCEPT !.outstanding_consensus_items =
                                  {x \in @ : x.kind # ci.kind}]
    IN  IF ci.kind = "ClientRequest"
        THEN process_client_request(removed, peer, ci.cr)
        ELSE process_partial_signature(removed, peer, ci.psig)

\* One turn of the loop of process_consensus_outcome.
process_consensus_item(st, peer, ci) ==
    LET removed == [st EXCEPT !.outstanding_consensus_items = @ \ {ci}]
    IN  IF ci.kind = "ClientRequest"
        THEN process_client_request(removed, peer, ci.cr)
        ELSE process_partial_signature(removed, peer, ci.psig)

\* contributions: the (peer, item) pairs of a batch in the order the loop
\* visits them, ascending peer first, then the peer's own order.  The core
\* after one turn is the single element next; the loop goes on from it.
RECURSIVE process_contributions(_, _)
process_contributions(st, contributions) ==
    IF contributions = <<>> \/ st.panicked
    THEN st
    ELSE CHOOSE result \in
             {process_contributions(next, Tail(contributions)) :
                  next \in {process_consensus_item(st, Head(contributions)[1],
                                                   Head(contributions)[2])}} : TRUE

process_consensus_outcome(st, batch) == process_contributions(st, batch)

(***************************************************************************)
(* Admission.                                                              *)
(***************************************************************************)
\* The spend keys of a reissuance's input coins.
pub_keys(reissuance_req) == {spend_key(c) : c \in reissuance_req.coins}

\* submit_client_request without the mint's validation of the coins.
submit_client_request_no_validate(st, cr) ==
    IF cr.type = "Reissuance" /\ ~verify(cr, pub_keys(cr))
    THEN [core |-> st, result |-> "InvalidTransactionSignature"]
    ELSE [core |-> [st EXCEPT !.outstanding_consensus_items = @ \cup {ClientRequestItem(cr)}],
          result |-> "Ok"]

\* submit_client_request with the insertion made before the checks.
submit_client_request_insert_first(st, cr) ==
    LET inserted == [st EXCEPT !.outstanding_consensus_items = @ \cup {ClientRequestItem(cr)}]
    IN  IF cr.type = "Reissuance" /\ ~verify(cr, pub_keys(cr))
        THEN [core |-> inserted, result |-> "InvalidTransactionSignature"]
        ELSE IF cr.type = "Reissuance" /\ ~validate(st.spent, cr.coins)
        THEN [core |-> inserted, result |-> "DeniedByMint"]
        ELSE [core |-> inserted, result |-> "Ok"]

\* submit_client_request that takes a request already in the pool for an error.
submit_client_request_reject_duplicate(st, cr) ==
    IF cr.type = "Reissuance" /\ ~verify(cr, pub_keys(cr))
    THEN [core |-> st, result |-> "InvalidTransactionSignature"]
    ELSE IF cr.type = "Reissuance" /\ ~validate(st.spent, cr.coins)
    THEN [core |-> st, result |-> "DeniedByMint"]
    ELSE IF ClientRequestItem(cr) \in st.outstanding_consensus_items
    THEN [core |-> st, result |-> "DeniedByMint"]
    ELSE [core |-> [st EXCEPT !.outstanding_consensus_items = @ \cup {ClientRequestItem(cr)}],
          result |-> "Ok"]

\* The value of submit_client_request: the core after the call and its result.
submit_client_request(st, cr) ==
    IF cr.type = "Reissuance" /\ ~verify(cr, pub_keys(cr))
    THEN [core |-> st, result |-> "InvalidTransactionSignature"]
    ELSE IF cr.type = "Reissuance" /\ ~validate(st.spent, cr.coins)
    THEN [core |-> st, result |-> "DeniedByMint"]
    ELSE [core |-> [st EXCEPT !.outstanding_consensus_items = @ \cup {ClientRequestItem(cr)}],
          result |-> "Ok"]

\* The Vec collected from the HashSet's iterator: its elements, each once, in
\* an order the set does not promise.
Orderings(set) ==
    {s \in [1 .. Cardinality(set) -> set] : \A i, j \in DOMAIN s : i # j => s[i] # s[j]}

get_consensus_proposal(st) == Orderings(st.outstanding_consensus_items)

(***************************************************************************)
(* Inputs.                                                                 *)
(***************************************************************************)
\* What a peer may contribute to an epoch.
Contribution(peer) ==
    {ClientRequestItem(cr) : cr \in IF peer \in Proposers THEN ClientRequests ELSE {}}
        \cup {PartiallySignedRequest(ps) :
                  ps \in {x \in PartialSigResponses :
                              x.signer = peer \/ (peer \in Byzantine /\ x.signer = 0)}}

Contributions == {<<peer, ci>> : peer \in Peers, ci \in ConsensusItems}

\* The batches of at most n items, each in the order the loop visits it.
BatchesUpTo(n) ==
    {b \in UNION {[1 .. k -> Contributions] : k \in 0 .. n} :
        /\ \A i \in DOMAIN b : b[i][2] \in Contribution(b[i][1])
        /\ \A i, j \in DOMAIN b : i < j => b[i][1] <= b[j][1]}

Batches == BatchesUpTo(MaxBatch)

WideBatches == BatchesUpTo(WideBatch)

(***************************************************************************)
(* The state machine.                                                      *)
(***************************************************************************)
\* ret before any call.  replica and cr are the arguments of a call on one
\* replica; sigs holds what process_consensus_outcome returned on each replica.
NoCall == [op |-> "none", replica |-> 0, cr |-> [type |-> "none"], result |-> "", sigs |-> <<>>]

InitOn(replicas) ==
    /\ outstanding_consensus_items = [p \in replicas |-> {}]
    /\ partial_blind_signatures = [p \in replicas |-> EmptyMap]
    /\ mint = [p \in replicas |-> {}]
    /\ panicked = [p \in replicas |-> FALSE]
    /\ ret = NoCall
    /\ emitted = [p \in replicas |-> [rid \in RequestIds |-> 0]]
    /\ epoch = 0

Init == InitOn({0})

InitPair == InitOn({0, 1})

Count(seq, x) == Cardinality({i \in DOMAIN seq : seq[i] = x})

SubmitClientRequest(p, cr) ==
    /\ ~panicked[p]
    /\ LET r == submit_client_request(Core(p), cr)
       IN  /\ outstanding_consensus_items' =
                  [outstanding_consensus_items EXCEPT ![p] = r.core.outstanding_consensus_items]
           /\ partial_blind_signatures' =
                  [partial_blind_signatures EXCEPT ![p] = r.core.partial_blind_signatures]
           /\ mint' = [mint EXCEPT ![p] = r.core.spent]
           /\ ret' = [NoCall EXCEPT !.op = "submit_client_request",
                                    !.replica = p,
                                    !.cr = cr,
                                    !.result = r.result]
    /\ UNCHANGED <<panicked, emitted, epoch>>

\* The same batch is delivered to every replica.  A call that panics returns
\* nothing; after a panic no call is made any more.
ProcessConsensusOutcome(batch) ==
    /\ \A p \in Replicas : ~panicked[p]
    /\ LET after == [p \in Replicas |-> process_consensus_outcome(Core(p), batch)]
           sigs == [p \in Replicas |-> IF after[p].panicked THEN <<>> ELSE after[p].out]
       IN  /\ outstanding_consensus_items' =
                  [p \in Replicas |-> after[p].outstanding_consensus_items]
           /\ partial_blind_signatures' =
                  [p \in Replicas |-> after[p].partial_blind_signatures]
           /\ mint' = [p \in Replicas |-> after[p].spent]
           /\ panicked' = [p \in Replicas |-> after[p].panicked]
           /\ ret' = [NoCall EXCEPT !.op = "process_consensus_outcome",
                                    !.result = IF \E p \in Replicas : after[p].panicked
                                               THEN "panic" ELSE "Ok",
                                    !.sigs = sigs]
           /\ emitted' = [p \in Replicas |->
                             [rid \in RequestIds |->
                                 emitted[p][rid] + Count(sigs[p], SigResponse(rid))]]
    /\ epoch' = epoch + 1

\* get_consensus_proposal leaves the core as it is.
GetConsensusProposal(p) ==
    /\ ~panicked[p]
    /\ get_consensus_proposal(Core(p)) # {}
    /\ ret' = [NoCall EXCEPT !.op = "get_consensus_proposal", !.replica = p, !.result = "Ok"]
    /\ UNCHANGED <<outstanding_consensus_items, partial_blind_signatures, mint, panicked,
                   emitted, epoch>>

\* The BFT layer delivers the proposal of replica p: a snapshot of its whole
\* pool, in the order get_consensus_proposal returned it, as the contribution of
\* peer p.
DeliverProposal(p) ==
    /\ outstanding_consensus_items[p] # {}
    /\ epoch' = epoch + 1
    /\ \E proposal \in get_consensus_proposal(Core(p)) :
           ProcessConsensusOutcome([i \in DOMAIN proposal |-> <<p, proposal[i]>>])

Next ==
    \/ \E p \in Replicas \cap Proposers, cr \in ClientRequests : SubmitClientRequest(p, cr)
    \/ epoch < MaxEpoch /\ \E batch \in Batches : ProcessConsensusOutcome(batch)
    \/ \E p \in Replicas : GetConsensusProposal(p)

NextWide ==
    \/ \E p \in Replicas \cap Proposers, cr \in ClientRequests : SubmitClientRequest(p, cr)
    \/ epoch < WideEpoch /\ \E batch \in WideBatches : ProcessConsensusOutcome(batch)
    \/ \E p \in Replicas : GetConsensusProposal(p)

NextPair ==
    \/ \E p \in Replicas \cap Proposers, cr \in ClientRequests : SubmitClientRequest(p, cr)
    \/ epoch < PairEpoch /\ \E batch \in WideBatches : ProcessConsensusOutcome(batch)
    \/ \E p \in Replicas : GetConsensusProposal(p)

\* Clients and peers act during the first LiveEpoch epochs; the proposals of the
\* replica are delivered for as long as its pool holds an item.
NextLive ==
    \/ epoch < LiveEpoch
           /\ \E p \in Replicas \cap Proposers, cr \in ClientRequests : SubmitClientRequest(p, cr)
    \/ epoch < LiveEpoch /\ \E batch \in Batches : ProcessConsensusOutcome(batch)
    \/ \E p \in Replicas : DeliverProposal(p)
    \/ \E p \in Replicas : GetConsensusProposal(p)

\* One replica, batches of MaxBatch items.
Spec == Init /\ [][Next]_vars

\* One replica, batches of WideBatch items.
SpecWide == Init /\ [][NextWide]_vars

\* Two replicas that are handed the same batches.
SpecPair == InitPair /\ [][NextPair]_vars

\* One replica whose pool the BFT layer eventually delivers: a proposal that
\* stays deliverable is delivered.
SpecLive == Init /\ [][NextLive]_vars /\ WF_vars(\E p \in Replicas : DeliverProposal(p))

(***************************************************************************)
(* Properties.                                                             *)
(***************************************************************************)
BatchItems(batch) == {batch[i][2] : i \in DOMAIN batch}

Range(seq) == {seq[i] : i \in DOMAIN seq}

AdmissionErrors == {"InvalidTransactionSignature", "DeniedByMint"}

\* C1: on every replica, at most one SigResponse is ever returned for a
\* request id, whatever is submitted and delivered.
AtMostOneEmission == \A p \in Replicas, rid \in RequestIds : emitted[p][rid] <= 1

\* C2: a share list holds at most one entry of each peer, the replica's own
\* identity included.
ShareUniqueness ==
    \A p \in Replicas :
        \A rid \in DOMAIN partial_blind_signatures[p] :
            LET entry == partial_blind_signatures[p][rid]
            IN  \A i, j \in DOMAIN entry : i # j => entry[i][1] # entry[j][1]

\* C3: two honest replicas that are handed the same epochs return the same
\* SigResponses from each of them.
CrossPeerDeterminism ==
    ret.op = "process_consensus_outcome" =>
        \A p, q \in Replicas : ret.sigs[p] = ret.sigs[q]

\* A delivered reissuance whose multi-signature does not verify.
UnauthorizedReissuance(ci) ==
    /\ ci.kind = "ClientRequest"
    /\ ci.cr.type = "Reissuance"
    /\ ~verify(ci.cr, pub_keys(ci.cr))

\* C4: a batch whose items are reissuances with an invalid multi-signature
\* yields no share and puts nothing into the pool.
ApplicationRevalidates ==
    [][\A batch \in Batches :
          ((\A ci \in BatchItems(batch) : UnauthorizedReissuance(ci))
               /\ ProcessConsensusOutcome(batch))
              => \A p \in Replicas :
                     /\ partial_blind_signatures'[p] = partial_blind_signatures[p]
                     /\ outstanding_consensus_items'[p] \subseteq outstanding_consensus_items[p]]_vars

\* C5: a reissuance that submit_client_request accepted had a multi-signature
\* that verifies and coins the mint validated at that call, and only
\* reissuances with a verifying multi-signature are in the pool.
AdmissionSoundness ==
    /\ (ret.op = "submit_client_request" /\ ret.result = "Ok" /\ ret.cr.type = "Reissuance")
           => /\ verify(ret.cr, pub_keys(ret.cr))
              /\ validate(mint[ret.replica], ret.cr.coins)
    /\ \A p \in Replicas :
           \A ci \in outstanding_consensus_items[p] :
               (ci.kind = "ClientRequest" /\ ci.cr.type = "Reissuance")
                   => verify(ci.cr, pub_keys(ci.cr))

\* A reissuance admitted after an epoch has been delivered.
AdmittedReissuance ==
    /\ ret.op = "submit_client_request"
    /\ ret.result = "Ok"
    /\ ret.cr.type = "Reissuance"
    /\ epoch > 0

\* C6: a submit_client_request that returns an error leaves the pool and the
\* share map as they were.
NoChangeOnAdmissionError ==
    [][(ret'.op = "submit_client_request" /\ ret'.result \in AdmissionErrors)
          => /\ outstanding_consensus_items' = outstanding_consensus_items
             /\ partial_blind_signatures' = partial_blind_signatures]_vars

\* A submission denied by the mint on a core that holds pool items and shares.
DeniedWithPendingItems ==
    /\ ret.op = "submit_client_request"
    /\ ret.result = "DeniedByMint"
    /\ outstanding_consensus_items[ret.replica] # {}
    /\ DOMAIN partial_blind_signatures[ret.replica] # {}

\* C7: submit_client_request of a PegOut returns Unimplemented, and no PegOut
\* is in the pool.
PegOutRejected ==
    /\ (ret.op = "submit_client_request" /\ ret.cr = PegOut) => ret.result = "Unimplemented"
    /\ \A p \in Replicas : ClientRequestItem(PegOut) \notin outstanding_consensus_items[p]

\* C8: process_consensus_outcome never panics.
NoPanicOnDelivery == \A p \in Replicas : ~panicked[p]

\* C9: when process_consensus_outcome returns, no item of its batch is in the
\* pool.
DeliveredItemsLeavePool ==
    [][\A batch \in WideBatches :
          ProcessConsensusOutcome(batch)
              => \A p \in Replicas :
                     ~panicked'[p] =>
                         BatchItems(batch) \cap outstanding_consensus_items'[p] = {}]_vars

\* C10: an item of the pool is still in it after any submit_client_request and
\* after any process_consensus_outcome whose batch does not hold it, and every
\* snapshot taken by get_consensus_proposal returns it.  (Stated of each call
\* that can be made in the state: a batch is delivered while epoch < MaxEpoch.)
UndeliveredItemsPersist ==
    \A p \in Replicas :
        ~panicked[p] =>
            LET pool == outstanding_consensus_items[p]
            IN  /\ \A cr \in ClientRequests :
                       pool \subseteq submit_client_request(Core(p), cr).core.outstanding_consensus_items
                /\ epoch < MaxEpoch =>
                       \A batch \in Batches :
                           pool \ BatchItems(batch)
                               \subseteq process_consensus_outcome(Core(p), batch).outstanding_consensus_items
                /\ \A proposal \in get_consensus_proposal(Core(p)) : pool \subseteq Range(proposal)

\* A delivery after which the pool holds a client request, which only an
\* earlier submission can have put there, beside a local share.
ItemSurvivedDelivery ==
    /\ ret.op = "process_consensus_outcome"
    /\ ret.result = "Ok"
    /\ \E cr \in ClientRequests : ClientRequestItem(cr) \in outstanding_consensus_items[0]
    /\ \E ps \in PartialSigResponses :
           PartiallySignedRequest(ps) \in outstanding_consensus_items[0]

\* Replica p is running and its share list of rid is one on which Mint::combine
\* succeeds.
Combinable(p, rid) ==
    /\ ~panicked[p]
    /\ rid \in DOMAIN partial_blind_signatures[p]
    /\ combine(partial_blind_signatures[p][rid]) # <<>>

\* The last call was a process_consensus_outcome that returned a SigResponse
\* for rid on replica p.
Returned(p, rid) ==
    /\ ret.op = "process_consensus_outcome"
    /\ SigResponse(rid) \in Range(ret.sigs[p])

\* C11: once the share list of rid holds shares on which combine succeeds, and
\* the pool's items keep being delivered, a later process_consensus_outcome
\* returns a SigResponse for rid.
MonotoneProgress ==
    \A p \in {0}, rid \in RequestIds : Combinable(p, rid) ~> Returned(p, rid)

\* The same, for the runs in which no call panics.
ProgressUnlessPanic ==
    \A p \in {0}, rid \in RequestIds : Combinable(p, rid) ~> (Returned(p, rid) \/ panicked[p])
\* The peers recorded in a share list.
SharePeers(entry) == {entry[i][1] : i \in DOMAIN entry}

\* The share list of rid on replica p, empty when there is none.
ShareList(p, rid) ==
    IF rid \in DOMAIN partial_blind_signatures[p]
    THEN partial_blind_signatures[p][rid]
    ELSE <<>>

\* C12: the delivery of a reissuance that the mint rejects leaves the share map
\* and the mint as they were, takes nothing but the delivered item from the
\* pool and returns nothing; and the delivery of a share returns a SigResponse
\* for its request only when more than MaxFaulty peers other than the replica
\* have contributed a share for it.  (Stated of each item that can be
\* delivered in the state.)
RejectedReissuanceDropped ==
    \A p \in Replicas :
        ~panicked[p] =>
            /\ \A peer \in Proposers, cr \in ClientRequests :
                   (/\ cr.type = "Reissuance"
                    /\ reissue(p, mint[p], cr.coins, cr.blind_tokens).sr = <<>>)
                       => LET after == process_consensus_outcome(
                                           Core(p), <<<<peer, ClientRequestItem(cr)>>>>)
                          IN  /\ after.partial_blind_signatures = partial_blind_signatures[p]
                              /\ after.outstanding_consensus_items
                                     = outstanding_consensus_items[p] \ {ClientRequestItem(cr)}
                              /\ after.spent = mint[p]
                              /\ after.out = <<>>
            /\ \A peer \in Peers, ps \in PartialSigResponses :
                   (/\ PartiallySignedRequest(ps) \in Contribution(peer)
                    /\ process_consensus_outcome(
                           Core(p), <<<<peer, PartiallySignedRequest(ps)>>>>).out # <<>>)
                       => Cardinality((SharePeers(ShareList(p, ps.id)) \cup {peer}) \ {p})
                              > MaxFaulty

\* A reissuance whose coins the mint has recorded as spent waits in the pool of
\* a replica whose share list holds its own share and that of MaxFaulty peers.
RejectedReissuancePending ==
    /\ ~panicked[0]
    /\ Cardinality(SharePeers(ShareList(0, 1)) \ {0}) = MaxFaulty
    /\ 0 \in SharePeers(ShareList(0, 1))
    /\ \E cr \in ClientRequests :
           /\ cr.type = "Reissuance"
           /\ ClientRequestItem(cr) \in outstanding_consensus_items[0]
           /\ reissue(0, mint[0], cr.coins, cr.blind_tokens).sr = <<>>
\* C13: submit_client_request of a PegIn, or of a Reissuance that passes the
\* checks, whose item is already in the pool returns Ok and leaves the pool and
\* the share map as they were; a snapshot of the pool holds the item once.
DuplicateAdmissionBenign ==
    \A p \in Replicas :
        ~panicked[p] =>
            \A cr \in ClientRequests :
                (/\ cr.type \in {"PegIn", "Reissuance"}
                 /\ ClientRequestItem(cr) \in outstanding_consensus_items[p]
                 /\ cr.type = "Reissuance"
                        => verify(cr, pub_keys(cr)) /\ validate(mint[p], cr.coins))
                    => LET r == submit_client_request(Core(p), cr)
                       IN  /\ r.result = "Ok"
                           /\ r.core.outstanding_consensus_items = outstanding_consensus_items[p]
                           /\ r.core.partial_blind_signatures = partial_blind_signatures[p]
                           /\ \A proposal \in get_consensus_proposal(r.core) :
                                  Count(proposal, ClientRequestItem(cr)) = 1

\* A reissuance has been admitted after an epoch and is in the pool, beside
\* another item, with its coins still unspent: submitting it again is a
\* duplicate admission of a valid request.
AdmittedReissuancePending ==
    /\ ret.op = "submit_client_request"
    /\ ret.result = "Ok"
    /\ ret.cr.type = "Reissuance"
    /\ epoch > 0
    /\ ClientRequestItem(ret.cr) \in outstanding_consensus_items[ret.replica]
    /\ Cardinality(outstanding_consensus_items[ret.replica]) > 1
    /\ validate(mint[ret.replica], ret.cr.coins)
\* C14: process_partial_signature calls Mint::combine, and returns a
\* SigResponse, only on a share list that holds shares of at least
\* NumPeers - MaxFaulty distinct peers.  (Stated of each share that can be
\* delivered in the state.)
ThresholdOfDistinctPeers ==
    \A p \in Replicas :
        ~panicked[p] =>
            \A peer \in Peers, ps \in PartialSigResponses :
                PartiallySignedRequest(ps) \in Contribution(peer) =>
                    LET req_psigs == add_sig_share(Core(p), peer, ps)
                        distinct == Cardinality(SharePeers(req_psigs))
                    IN  /\ Len(req_psigs) > tbs_threshold => distinct >= NumPeers - MaxFaulty
                        /\ process_partial_signature(Core(p), peer, ps).out # <<>>
                               => distinct >= NumPeers - MaxFaulty
\* C15: once a SigResponse for rid has been returned, the share map holds no
\* entry for rid in any later state.
EmittedIsTerminal ==
    \A p \in Replicas, rid \in RequestIds :
        emitted[p][rid] > 0 => rid \notin DOMAIN partial_blind_signatures[p]
\* C16: the delivery of a share for rid contributed by a peer that already has
\* an entry in the share list of rid leaves the list as it was, the payload
\* being equal or not: combine is given the list with the first share, and
\* the list is that list afterwards unless the combination removed it.
FirstShareWins ==
    \A p \in Replicas :
        ~panicked[p] =>
            \A peer \in Peers, ps \in PartialSigResponses :
                (/\ PartiallySignedRequest(ps) \in Contribution(peer)
                 /\ peer \in SharePeers(ShareList(p, ps.id)))
                    => LET after == process_consensus_outcome(
                                        Core(p), <<<<peer, PartiallySignedRequest(ps)>>>>)
                       IN  /\ add_sig_share(Core(p), peer, ps) = ShareList(p, ps.id)
                           /\ ps.id \in DOMAIN after.partial_blind_signatures
                                  => after.partial_blind_signatures[ps.id] = ShareList(p, ps.id)
                           /\ ps.id \notin DOMAIN after.partial_blind_signatures
                                  => after.out = combine(ShareList(p, ps.id))

\* The share list holds a share of the Byzantine peer, which can contribute
\* another payload for the same request, after the share of another peer.
ByzantineShareRecorded ==
    /\ ~panicked[0]
    /\ Len(ShareList(0, 1)) >= 2
    /\ \E peer \in Byzantine :
           /\ ShareList(0, 1)[2][1] = peer
           /\ \E ps \in PartialSigResponses :
                  /\ PartiallySignedRequest(ps) \in Contribution(peer)
                  /\ ps # ShareList(0, 1)[2][2]
\* C17: when the delivery of a share makes the list long enough and
\* Mint::combine fails on it, nothing is returned and the list is kept with
\* every share, the delivered one included; and each share delivered for the
\* request after that returns what combine makes of the list then.  (Stated of
\* each share that can be delivered in the state.)
CombineFailureKeepsEntry ==
    \A p \in Replicas :
        ~panicked[p] =>
            \A peer \in Peers, ps \in PartialSigResponses :
                LET req_psigs == add_sig_share(Core(p), peer, ps)
                    after == process_consensus_outcome(
                                 Core(p), <<<<peer, PartiallySignedRequest(ps)>>>>)
                IN  (/\ PartiallySignedRequest(ps) \in Contribution(peer)
                     /\ Len(req_psigs) > tbs_threshold
                     /\ combine(req_psigs) = <<>>)
                        => /\ after.out = <<>>
                           /\ ps.id \in DOMAIN after.partial_blind_signatures
                           /\ after.partial_blind_signatures[ps.id] = req_psigs
                           /\ \A later \in Peers, ls \in PartialSigResponses :
                                  (/\ PartiallySignedRequest(ls) \in Contribution(later)
                                   /\ ls.id = ps.id)
                                      => process_consensus_outcome(
                                             after, <<<<later, PartiallySignedRequest(ls)>>>>).out
                                         = combine(add_sig_share(after, later, ls))

\* A share list one short of the length at which the combination is
\* attempted, holding a share that is not its contributor's own: the share of
\* a further peer makes it long enough, and combine fails on it.
FaultyShareBelowThreshold ==
    /\ ~panicked[0]
    /\ Len(ShareList(0, 1)) = tbs_threshold
    /\ \E i \in DOMAIN ShareList(0, 1) : ShareList(0, 1)[i][2].signer # ShareList(0, 1)[i][1]
    /\ \E peer \in Peers \ SharePeers(ShareList(0, 1)) :
           /\ PartiallySignedRequest(PartialSigResponse(1, peer)) \in Contribution(peer)
           /\ combine(add_sig_share(Core(0), peer, PartialSigResponse(1, peer))) = <<>>

\* The share the mint of replica p makes for a delivered client request, <<>>
\* when it makes none.
LocalShare(p, cr) ==
    CASE cr.type = "PegIn" -> <<sign(p, cr.blind_tokens)>>
      [] cr.type = "Reissuance" -> reissue(p, mint[p], cr.coins, cr.blind_tokens).sr
      [] OTHER -> <<>>

\* C18: right after a delivered PegIn, or a delivered Reissuance for which the
\* mint returned a share, has been applied, the local share is in the pool as
\* a PartiallySignedRequest and is the last entry of the share list of its
\* request, under the replica's identity.  (Stated of each client request that
\* can be delivered in the state.)
LocalSharePooledAndRecorded ==
    \A p \in Replicas :
        ~panicked[p] =>
            \A peer \in Proposers, cr \in ClientRequests :
                LocalShare(p, cr) # <<>> =>
                    LET share == LocalShare(p, cr)[1]
                        after == process_consensus_outcome(
                                     Core(p), <<<<peer, ClientRequestItem(cr)>>>>)
                    IN  /\ PartiallySignedRequest(share) \in after.outstanding_consensus_items
                        /\ share.id \in DOMAIN after.partial_blind_signatures
                        /\ LET entry == after.partial_blind_signatures[share.id]
                           IN  /\ entry = Append(ShareList(p, share.id), <<p, share>>)
                               /\ entry[Len(entry)] = <<p, share>>

\* The local share has been pushed behind the share of another peer and is in
\* the pool.
LocalShareBehindPeerShare ==
    /\ ~panicked[0]
    /\ ret.op = "process_consensus_outcome"
    /\ Len(ShareList(0, 1)) = 2
    /\ ShareList(0, 1)[1][1] # 0
    /\ ShareList(0, 1)[2] = <<0, sign(0, "bt1")>>
    /\ PartiallySignedRequest(sign(0, "bt1")) \in outstanding_consensus_items[0]

\* C19: every key of the share map maps to a list that is not empty.
NoEmptyShareLists ==
    \A p \in Replicas :
        \A rid \in DOMAIN partial_blind_signatures[p] :
            Len(partial_blind_signatures[p][rid]) > 0

\* An entry that process_partial_signature created: its first share is that
\* of another peer, here one that is not the contributing peer's own.
EntryCreatedByFaultyShare ==
    /\ 1 \in DOMAIN partial_blind_signatures[0]
    /\ \E peer \in Byzantine :
           /\ ShareList(0, 1)[1][1] = peer
           /\ ShareList(0, 1)[1][2].signer # peer

\* C20: every share in the pool is one of the replica's own mint.  The only
\* item submit_client_request puts into the pool is the request it returned Ok
\* for; the only item the delivery of a client request puts into it is the
\* share the replica's mint made for that request; the delivery of a share
\* puts nothing into it.  (Stated of each call that can be made in the state.)
PoolProvenance ==
    \A p \in Replicas :
        ~panicked[p] =>
            LET pool == outstanding_consensus_items[p]
            IN  /\ \A ci \in pool : ci.kind = "PartiallySignedRequest" => ci.psig.signer = p
                /\ \A cr \in ClientRequests :
                       LET r == submit_client_request(Core(p), cr)
                       IN  r.core.outstanding_consensus_items \ pool
                               \subseteq IF r.result = "Ok" THEN {ClientRequestItem(cr)} ELSE {}
                /\ \A peer \in Peers, ci \in ConsensusItems :
                       ci \in Contribution(peer) =>
                           LET after == process_consensus_outcome(Core(p), <<<<peer, ci>>>>)
                           IN  after.outstanding_consensus_items \ pool
                                   \subseteq IF ci.kind = "ClientRequest"
                                             THEN {PartiallySignedRequest(share) :
                                                       share \in Range(LocalShare(p, ci.cr))}
                                             ELSE {}

\* The pool holds a submitted client request and the local share while the
\* share list holds the delivered share of another peer, which is not in the
\* pool.
PoolBesideDeliveredShare ==
    /\ ~panicked[0]
    /\ \E cr \in ClientRequests : ClientRequestItem(cr) \in outstanding_consensus_items[0]
    /\ PartiallySignedRequest(sign(0, "bt1")) \in outstanding_consensus_items[0]
    /\ \E i \in DOMAIN ShareList(0, 1) :
           /\ ShareList(0, 1)[i][1] # 0
           /\ PartiallySignedRequest(ShareList(0, 1)[i][2]) \notin outstanding_consensus_items[0]
====
